---- MODULE Spec2Model ----
(***************************************************************************)
(* Stream-discovery pipeline of osrp-backend: token acquisition, paginated *)
(* scan of helix/streams, match policy, dedupe/sort and the /streams       *)
(* aggregation handler.  Three revisions of server.js are kept in the      *)
(* repository (src/server.js, src/unnamed/part_001, src/unnamed/part_000); *)
(* the variable rev says which one is running.                             *)
(*                                                                         *)
(* One action is one run-to-completion step of the Node event loop: the    *)
(* code between two awaits on network I/O, including every microtask that  *)
(* follows without further I/O.                                            *)
(***************************************************************************)
EXTENDS Integers, Sequences, FiniteSets, TLC

\* ------------------------------------------------------------------ bounds
MaxBudget == 4      \* TWITCH_MAX_PAGES ranges over 0..MaxBudget
MaxItems  == 3      \* records the upstream serves to the invocations in flight, in total

\* --------------------------------------------------------------- revisions
Server  == "server.js"
Part001 == "part_001"
Part000 == "part_000"
Revisions == {Server, Part001, Part000}
\* the revisions whose getTwitchStreams is the paginated scan of helix/streams
ScanRevisions == {Server, Part001}

Invs == {1, 2}      \* ids of pipeline invocations (HTTP requests being served)

\* ------------------------------------------------------- strings as tuples
\* A JavaScript string is a tuple of one-character strings, so that
\* toLowerCase, trim and RegExp.test are computed and not assumed.
Upper == <<"A","B","C","D","E","F","G","H","I","J","K","L","M",
           "N","O","P","Q","R","S","T","U","V","W","X","Y","Z">>
Lower == <<"a","b","c","d","e","f","g","h","i","j","k","l","m",
           "n","o","p","q","r","s","t","u","v","w","x","y","z">>
Digits == {"0","1","2","3","4","5","6","7","8","9"}

LowerChar(c) ==
  IF \E k \in 1..26 : Upper[k] = c
    THEN Lower[CHOOSE k \in 1..26 : Upper[k] = c]
    ELSE c

toLowerCase(s) == [k \in 1..Len(s) |-> LowerChar(s[k])]

IsSpace(c) == c \in {" ", "\t", "\n"}
IsWord(c)  == LowerChar(c) \in {Lower[k] : k \in 1..26} \cup Digits \cup {"_"}

RECURSIVE trimStart(_)
trimStart(s) ==
  IF s # <<>> /\ IsSpace(Head(s)) THEN trimStart(Tail(s)) ELSE s

RECURSIVE trimEnd(_)
trimEnd(s) ==
  IF s # <<>> /\ IsSpace(s[Len(s)]) THEN trimEnd(SubSeq(s, 1, Len(s) - 1)) ELSE s

trim(s) == trimEnd(trimStart(s))

\* ------------------------------------------------------------------ RegExp
\* A pattern is a set of alternatives; an alternative is a sequence of
\* tokens [k : "lit" | "ws" | "word", c : char, q : "1" | "?" | "*"].
Lit(c)   == [k |-> "lit",  c |-> c,   q |-> "1"]
WsStar   == [k |-> "ws",   c |-> " ", q |-> "*"]
DotOpt   == [k |-> "lit",  c |-> ".", q |-> "?"]
WordStar == [k |-> "word", c |-> "_", q |-> "*"]

Accepts(tok, c) ==
  CASE tok.k = "lit"  -> LowerChar(c) = tok.c      \* flag "i"
    [] tok.k = "ws"   -> IsSpace(c)
    [] tok.k = "word" -> IsWord(c)

RECURSIVE MatchHere(_, _, _, _)
MatchHere(pat, pi, s, si) ==
  IF pi > Len(pat) THEN TRUE
  ELSE LET tok  == pat[pi]
           eats == si <= Len(s) /\ Accepts(tok, s[si])
       IN  CASE tok.q = "1" -> eats /\ MatchHere(pat, pi + 1, s, si + 1)
             [] tok.q = "?" -> \/ (eats /\ MatchHere(pat, pi + 1, s, si + 1))
                               \/ MatchHere(pat, pi + 1, s, si)
             [] tok.q = "*" -> \/ MatchHere(pat, pi + 1, s, si)
                               \/ (eats /\ MatchHere(pat, pi, s, si + 1))

\* RegExp.prototype.test without the sticky/global flags: a match anywhere.
RegExpTest(alts, s) ==
  \E alt \in alts : \E si \in 1..(Len(s) + 1) : MatchHere(alt, 1, s, si)

OSRP_RE ==
  { <<Lit("o"), WsStar, DotOpt, WsStar, Lit("s"), WsStar, DotOpt, WsStar,
      Lit("r"), WsStar, DotOpt, WsStar, Lit("p")>>,
    <<Lit("o"), Lit("l"), Lit("d"), WsStar,
      Lit("s"), Lit("c"), Lit("h"), Lit("o"), Lit("o"), Lit("l"), WsStar,
      Lit("r"), WsStar, Lit("p")>>,
    <<Lit("o"), Lit("l"), Lit("d"),
      Lit("s"), Lit("c"), Lit("h"), Lit("o"), Lit("o"), Lit("l"), WsStar,
      Lit("r"), WsStar, Lit("p")>>,
    <<Lit("o"), Lit("s"), Lit("r"), Lit("p"), WordStar>> }

\* part_000: /osrp|old\s*school\s*rp/i
SearchTitleRe ==
  { <<Lit("o"), Lit("s"), Lit("r"), Lit("p")>>,
    <<Lit("o"), Lit("l"), Lit("d"), WsStar,
      Lit("s"), Lit("c"), Lit("h"), Lit("o"), Lit("o"), Lit("l"), WsStar,
      Lit("r"), Lit("p")>> }

\* ------------------------------------------------------ upstream records
Undefined == "undefined"
NoCursor  == "null"
Unset     == "unset"
Null      == "null"

TitleDotted == <<"O", ".", "S", " ", "R", "P">>     \* "O.S RP"
TitleOsrpFr == <<"o", "s", "r", "p", "f", "r">>     \* "osrpfr"
TitleChat   == <<"c", "h", "a", "t">>              \* an unrelated title

LoginAnn  == <<"A", "n", "n">>
LoginAnnL == <<"a", "n", "n">>
LoginBob  == <<"b", "o", "b">>

\* The raw stream records the listing endpoint may serve.
Records ==
  { [user_login |-> LoginAnn,  title |-> TitleDotted, viewer_count |-> 1, game_id |-> "g1"],
    [user_login |-> LoginAnnL, title |-> TitleChat,   viewer_count |-> 2, game_id |-> "g2"],
    [user_login |-> LoginBob,  title |-> TitleOsrpFr, viewer_count |-> 2, game_id |-> "g2"],
    [user_login |-> LoginBob,  title |-> TitleChat,   viewer_count |-> 3, game_id |-> "g1"] }

\* the opaque continuation cursor the upstream hands out with its k-th page
CursorAfter(k) == "c" \o ToString(k)
Tokens  == {"t1"}

SeqsUpTo(S, n) == UNION {[1..k -> S] : k \in 0..n}


\* ------------------------------------------------------------------- state
VARIABLES
  rev,                \* which revision of server.js is running
  TWITCH_CLIENT_ID,   \* process.env.TWITCH_CLIENT_ID
  TWITCH_SECRET,      \* process.env.TWITCH_SECRET
  TWITCH_MAX_PAGES,   \* page budget of one scan
  WHITELIST_ENV,      \* process.env.WHITELIST_LOGINS, already split at ","
  CATEGORY_IDS,       \* category allow-list of the environment (no revision reads it)
  clients,            \* invocation ids that receive requests
  route,              \* per invocation: the route its request asks for
  catalog,            \* the raw records live on the platform
  credValid,          \* the identity endpoint's last issued credential is still
                      \* within its time-to-live minus the margin
  pc,                 \* per invocation: idle, token_wait, page_wait,
                      \*   search_wait, lookup_wait, done
  token,              \* getTwitchStreams: const token
  cursor,             \* getTwitchStreams: let cursor
  page,               \* getTwitchStreams: loop counter
  results,            \* getTwitchStreams: const results
  qi,                 \* part_000: index of the search query in flight
  found,              \* part_000: keys of the Map found
  idReqs,             \* identity-endpoint requests issued by this invocation
  idReply,            \* how the identity endpoint answered: none, neterr, status,
                      \*   badjson, notoken, ok
  acquired,           \* outcome of the getTwitchToken() promise
  reqs,               \* listing requests issued by this invocation, in order
  pages,              \* listing replies received by this invocation, in order
  tw,                 \* outcome of the getTwitchStreams() promise
  tt,                 \* outcome of the getTiktokStreams() promise
  responses,          \* bodies passed to res.json, in order
  raised              \* an error left the route handler

config == <<rev, TWITCH_CLIENT_ID, TWITCH_SECRET, TWITCH_MAX_PAGES,
            WHITELIST_ENV, CATEGORY_IDS, clients, route, catalog>>
locals == <<token, cursor, page, results, qi, found>>
ghosts == <<idReqs, idReply, acquired, reqs, pages>>
outs   == <<pc, tw, tt, responses, raised>>
vars   == <<config, credValid, locals, ghosts, outs>>

\* ------------------------------------------------------------ match policy
Falsy(v) == v \in {Unset, Undefined, NoCursor, ""}

\* (process.env.WHITELIST_LOGINS || "").split(",").map(trim+lower).filter(Boolean)
WHITELIST_LOGINS ==
  {toLowerCase(trim(WHITELIST_ENV[k])) : k \in 1..Len(WHITELIST_ENV)} \ {<<>>}

isWhitelisted(s) == toLowerCase(s.user_login) \in WHITELIST_LOGINS

matchesTitle(s) == RegExpTest(OSRP_RE, s.title)

\* the inclusion test of the per-item loop
Matches(r, s) ==
  CASE r = Server  -> isWhitelisted(s) \/ matchesTitle(s)
    [] r = Part001 -> matchesTitle(s)
    [] r = Part000 -> RegExpTest(SearchTitleRe, s.title)

UrlBase == "https://twitch.tv/"

\* the object pushed to results
MatchedStream(s) ==
  [platform |-> "twitch",
   title    |-> s.title,
   url      |-> <<UrlBase>> \o s.user_login,
   viewers  |-> s.viewer_count]

RECURSIVE PageMatches(_, _)
PageMatches(r, items) ==
  IF items = <<>> THEN <<>>
  ELSE (IF Matches(r, Head(items)) THEN <<MatchedStream(Head(items))>> ELSE <<>>)
         \o PageMatches(r, Tail(items))

\* ----------------------------------------------------------------- reducer
\* key of the Map uniq: (s.url || "").toLowerCase()
UrlKey(m) == toLowerCase(m.url)

RECURSIVE DedupeFrom(_, _)
DedupeFrom(list, keys) ==
  IF list = <<>> THEN <<>>
  ELSE LET s   == Head(list)
           key == UrlKey(s)
       IN  IF key # <<>> /\ key \notin keys
             THEN <<s>> \o DedupeFrom(Tail(list), keys \cup {key})
             ELSE DedupeFrom(Tail(list), keys)

\* uniq.set(key, s) without the !uniq.has(key) test: the Map keeps the place
\* of the first record of a key and the value of the last
DedupeLastWins(list) ==
  LET first == DedupeFrom(list, {})
  IN  [k \in 1..Len(first) |->
         list[CHOOSE j \in 1..Len(list) :
                /\ UrlKey(list[j]) = UrlKey(first[k])
                /\ \A m \in (j + 1)..Len(list) : UrlKey(list[m]) # UrlKey(first[k])]]

Dedupe(list) == DedupeFrom(list, {})

OrZero(v) == IF v \in Int THEN v ELSE 0       \* (x.viewers || 0)

Compare(a, b) == OrZero(b.viewers) - OrZero(a.viewers)

\* Array.prototype.sort is stable: s goes behind every x with Compare(x, s) <= 0
RECURSIVE Insert(_, _)
Insert(sorted, s) ==
  IF sorted = <<>> THEN <<s>>
  ELSE IF Compare(Head(sorted), s) <= 0
         THEN <<Head(sorted)>> \o Insert(Tail(sorted), s)
         ELSE <<s>> \o sorted

RECURSIVE SortByViewers(_)
SortByViewers(list) ==
  IF list = <<>> THEN <<>>
  ELSE Insert(SortByViewers(SubSeq(list, 1, Len(list) - 1)), list[Len(list)])

\* what getTwitchStreams returns once the page loop has ended
Reduce(r, list) ==
  CASE r = Server  -> SortByViewers(Dedupe(list))
    [] r = Part001 -> Dedupe(list)

\* -------------------------------------------------------------- aggregator
Fulfilled(v) == [status |-> "fulfilled", value |-> v]
Rejected     == [status |-> "rejected",  value |-> <<>>]
Pending      == [status |-> "pending",   value |-> <<>>]

getTiktokStreams == Fulfilled(<<>>)

ValueOrEmpty(o) == IF o.status = "fulfilled" THEN o.value ELSE <<>>

\* Promise.allSettled, then the spread of the fulfilled values
HandlerAllSettled(twO, ttO) ==
  [sent |-> << ValueOrEmpty(twO) \o ValueOrEmpty(ttO) >>, raised |-> FALSE]

\* Promise.all awaited outside any try/catch: the rejection leaves the handler
HandlerAllNoCatch(twO, ttO) ==
  IF twO.status = "rejected" \/ ttO.status = "rejected"
    THEN [sent |-> <<>>, raised |-> TRUE]
    ELSE [sent |-> << twO.value \o ttO.value >>, raised |-> FALSE]

\* Promise.all inside try/catch: a rejection lands in catch, which sends []
HandlerAll(twO, ttO) ==
  IF twO.status = "rejected" \/ ttO.status = "rejected"
    THEN [sent |-> << <<>> >>, raised |-> FALSE]
    ELSE [sent |-> << twO.value \o ttO.value >>, raised |-> FALSE]

\* /streams written as /debug-osrp is: the scan awaited outside any try/catch,
\* so that its rejection leaves the handler before res.json
HandlerAwaitNoCatch(r, twO, ttO) ==
  IF twO.status = "rejected"
    THEN [sent |-> <<>>, raised |-> TRUE]
    ELSE [sent |-> << twO.value \o ValueOrEmpty(ttO) >>, raised |-> FALSE]

\* app.get("/streams") once both source promises have settled
StreamsHandler(r, twO, ttO) ==
  CASE r = Server  -> HandlerAllSettled(twO, ttO)
    [] r = Part001 -> HandlerAll(twO, ttO)
    [] r = Part000 -> HandlerAllSettled(twO, ttO)

\* ------------------------------------------------------------------ routes
StreamsRoute     == "/streams"
DebugOsrpRoute   == "/debug-osrp"
DebugSampleRoute == "/debug-sample"
HealthRoute      == "/health"

\* the routes a revision registers (part_001's /debug-sample, which returns
\* the titles collected by getTwitchStreams({collectSample: true}), is not
\* among the routes of the model)
RoutesOf(r) ==
  CASE r = Server  -> {StreamsRoute, DebugOsrpRoute, DebugSampleRoute, HealthRoute}
    [] r = Part001 -> {StreamsRoute, DebugOsrpRoute, HealthRoute}
    [] r = Part000 -> {StreamsRoute, HealthRoute}

SampleSize == 10    \* data.slice(0, 10) of /debug-osrp

Take(list, n) == SubSeq(list, 1, IF Len(list) < n THEN Len(list) ELSE n)

\* app.get("/debug-osrp"): await getTwitchStreams() outside any try/catch
DebugOsrpHandler(twO) ==
  IF twO.status = "rejected"
    THEN [sent |-> <<>>, raised |-> TRUE]
    ELSE [sent |-> << [count  |-> Len(twO.value),
                       sample |-> Take(twO.value, SampleSize)] >>,
          raised |-> FALSE]

\* ------------------------------------------------------------------ init
WhitelistEnvs == { <<>>, << <<" ", "A", "n", "n">>, <<>> >> }    \* "" and " Ann,"

Init ==
  /\ rev \in Revisions
  /\ TWITCH_CLIENT_ID \in {Unset, "cid"}
  /\ TWITCH_SECRET \in {Unset, "sec"}
  /\ TWITCH_MAX_PAGES \in (IF rev \in ScanRevisions THEN 0..MaxBudget ELSE {0})
  /\ WHITELIST_ENV \in (IF rev = Server THEN WhitelistEnvs ELSE {<<>>})
  /\ CATEGORY_IDS \in {{}, {"g1"}}
  /\ clients = {1}
  /\ route = [i \in Invs |-> StreamsRoute]
  /\ catalog = Records
  /\ credValid = FALSE
  /\ pc = [i \in Invs |-> "idle"]
  /\ token = [i \in Invs |-> Undefined]
  /\ cursor = [i \in Invs |-> NoCursor]
  /\ page = [i \in Invs |-> 0]
  /\ results = [i \in Invs |-> <<>>]
  /\ qi = [i \in Invs |-> 0]
  /\ found = [i \in Invs |-> {}]
  /\ idReqs = [i \in Invs |-> 0]
  /\ idReply = [i \in Invs |-> "none"]
  /\ acquired = [i \in Invs |-> Pending]
  /\ reqs = [i \in Invs |-> <<>>]
  /\ pages = [i \in Invs |-> <<>>]
  /\ tw = [i \in Invs |-> Pending]
  /\ tt = [i \in Invs |-> Pending]
  /\ responses = [i \in Invs |-> <<>>]
  /\ raised = [i \in Invs |-> FALSE]

\* ----------------------------------------------------------------- actions
\* getTwitchStreams() has settled with outcome o: the handler of /streams or
\* of /debug-osrp resumes after its await, builds the body and answers.  The
\* promise of the stub getTiktokStreams() was fulfilled when the /streams
\* handler called it.
Deliver(i, o) ==
  LET h == IF route[i] = StreamsRoute
             THEN StreamsHandler(rev, o, getTiktokStreams)
             ELSE DebugOsrpHandler(o)
  IN  /\ tw' = [tw EXCEPT ![i] = o]
      /\ responses' = [responses EXCEPT ![i] = h.sent]
      /\ raised' = [raised EXCEPT ![i] = h.raised]
      /\ pc' = [pc EXCEPT ![i] = "done"]

\* a first-settled join (Promise.race): the handler resumes on the stub's
\* promise and answers while the scan is still in flight
AnswersOnFirstSettled(i, at) ==
  /\ pc' = [pc EXCEPT ![i] = at]
  /\ responses' = [responses EXCEPT ![i] = << getTiktokStreams.value >>]
  /\ UNCHANGED <<tw, raised>>

\* the handler keeps waiting for getTwitchStreams()
StillPending(i, at) ==
  /\ pc' = [pc EXCEPT ![i] = at]
  /\ UNCHANGED <<tw, responses, raised>>

\* a guard that forgets the secret: if (!TWITCH_CLIENT_ID) return null
TokenConfiguredIdOnly == ~Falsy(TWITCH_CLIENT_ID)

\* getTwitchToken: the client-credentials exchange is attempted
TokenConfigured == ~Falsy(TWITCH_CLIENT_ID) /\ ~Falsy(TWITCH_SECRET)

\* GET /streams arrives: both sources are called; getTwitchStreams runs up to
\* the await of the token request, or to its end when no request is made.
\* GET /debug-osrp calls getTwitchStreams alone.
Request(i) ==
  /\ i \in clients
  /\ route[i] \in {StreamsRoute, DebugOsrpRoute}
  /\ pc[i] \in {"idle", "done"}
  /\ token' = [token EXCEPT ![i] = Undefined]
  /\ cursor' = [cursor EXCEPT ![i] = NoCursor]
  /\ page' = [page EXCEPT ![i] = 0]
  /\ results' = [results EXCEPT ![i] = <<>>]
  /\ qi' = [qi EXCEPT ![i] = 0]
  /\ found' = [found EXCEPT ![i] = {}]
  /\ reqs' = [reqs EXCEPT ![i] = <<>>]
  /\ pages' = [pages EXCEPT ![i] = <<>>]
  /\ tt' = [tt EXCEPT ![i] = IF route[i] = StreamsRoute THEN getTiktokStreams ELSE Pending]
  /\ idReply' = [idReply EXCEPT ![i] = "none"]
  /\ IF TokenConfigured
       THEN /\ idReqs' = [idReqs EXCEPT ![i] = 1]
            /\ acquired' = [acquired EXCEPT ![i] = Pending]
            /\ pc' = [pc EXCEPT ![i] = "token_wait"]
            /\ tw' = [tw EXCEPT ![i] = Pending]
            /\ responses' = [responses EXCEPT ![i] = <<>>]
            /\ raised' = [raised EXCEPT ![i] = FALSE]
       ELSE /\ idReqs' = [idReqs EXCEPT ![i] = 0]
            /\ acquired' = [acquired EXCEPT ![i] = Fulfilled(Null)]
            /\ Deliver(i, Fulfilled(<<>>))
  /\ UNCHANGED <<config, credValid>>

\* the token request rejects (network error) or its body is no JSON:
\* getTwitchToken throws, and so does getTwitchStreams
TokenFails(i) ==
  /\ pc[i] = "token_wait"
  /\ \E kind \in {"neterr", "badjson"} : idReply' = [idReply EXCEPT ![i] = kind]
  /\ acquired' = [acquired EXCEPT ![i] = Rejected]
  /\ Deliver(i, Rejected)
  /\ UNCHANGED <<config, credValid, locals, idReqs, reqs, pages, tt>>

\* non-success status, or a body without access_token: token is falsy
TokenRefused(i) ==
  /\ pc[i] = "token_wait"
  /\ \E kind \in {"status", "notoken"} : idReply' = [idReply EXCEPT ![i] = kind]
  /\ acquired' = [acquired EXCEPT ![i] = Fulfilled(Null)]
  /\ Deliver(i, Fulfilled(<<>>))
  /\ UNCHANGED <<config, credValid, locals, idReqs, reqs, pages, tt>>

PageSize == 100     \* url.searchParams.set("first", "100")

\* a request built without the "after" parameter: every page asks for page one
ListingRequestNoCursor(after, t) == [first |-> PageSize, after |-> NoCursor, token |-> t]

\* GET helix/streams?first=100[&after=cursor] with Authorization: Bearer t
ListingRequest(after, t) == [first |-> PageSize, after |-> after, token |-> t]

\* the off-by-one loop condition page <= TWITCH_MAX_PAGES
WithinBudgetOffByOne(p) == p <= TWITCH_MAX_PAGES

\* the loop condition page < TWITCH_MAX_PAGES
WithinBudget(p) == p < TWITCH_MAX_PAGES

\* the break that looks at the cursor only: if (!cursor) break
PageEndedCursorOnly(c, items) == Falsy(c)

\* if (!cursor || items.length === 0) break
PageEnded(c, items) == Falsy(c) \/ Len(items) = 0

\* the exchange succeeds with access_token t; the pipeline issues its first
\* upstream request, or ends at once when the page budget is 0
TokenIssued(i) ==
  /\ pc[i] = "token_wait"
  /\ \E t \in Tokens :
       /\ token' = [token EXCEPT ![i] = t]
       /\ acquired' = [acquired EXCEPT ![i] = Fulfilled(t)]
       /\ credValid' = TRUE
       /\ IF rev \in ScanRevisions
            THEN IF WithinBudget(0)
                   THEN /\ reqs' = [reqs EXCEPT ![i] = <<ListingRequest(cursor[i], t)>>]
                        /\ StillPending(i, "page_wait")
                   ELSE /\ reqs' = reqs
                        /\ Deliver(i, Fulfilled(Reduce(rev, results[i])))
            ELSE /\ reqs' = reqs
                 /\ StillPending(i, "search_wait")
       /\ qi' = [qi EXCEPT ![i] = IF rev \in ScanRevisions THEN 0 ELSE 1]
  /\ idReply' = [idReply EXCEPT ![i] = "ok"]
  /\ UNCHANGED <<config, cursor, page, results, found, idReqs, pages, tt>>

TokenResponse(i) == TokenFails(i) \/ TokenRefused(i) \/ TokenIssued(i)

PageReply(kind, items, c) == [kind |-> kind, items |-> items, cursor |-> c]

RECURSIVE Scanned(_)
Scanned(log) ==
  IF log = <<>> THEN 0 ELSE Len(Head(log).items) + Scanned(Tail(log))

\* records served so far to the invocations whose logs are kept
RECURSIVE ScannedBy(_)
ScannedBy(I) ==
  IF I = {} THEN 0
  ELSE LET i == CHOOSE x \in I : TRUE
       IN  Scanned(pages[i]) + ScannedBy(I \ {i})

ScannedByAll == ScannedBy(Invs)

\* results declared at module level: one array for all invocations
PushShared(i, gathered) == [j \in Invs |-> gathered]

\* results.push on the array that is local to this call of getTwitchStreams
Push(i, gathered) == [results EXCEPT ![i] = gathered]

\* await fetch(url) rejects, or r.json() does: the scan throws
PageFails(i) ==
  /\ pc[i] = "page_wait"
  /\ \E kind \in {"neterr", "badjson"} :
       pages' = [pages EXCEPT ![i] = Append(@, PageReply(kind, <<>>, NoCursor))]
  /\ Deliver(i, Rejected)
  /\ UNCHANGED <<config, credValid, locals, idReqs, idReply, acquired, reqs, tt>>

\* !r.ok handled as in part_000's lookup: return [] (what was gathered is lost)
PageRefusedDiscards(i) ==
  /\ pc[i] = "page_wait"
  /\ pages' = [pages EXCEPT ![i] = Append(@, PageReply("status", <<>>, NoCursor))]
  /\ Deliver(i, Fulfilled(<<>>))
  /\ UNCHANGED <<config, credValid, locals, idReqs, idReply, acquired, reqs, tt>>

\* !r.ok: warn and break; what was gathered is reduced and returned
PageRefused(i) ==
  /\ pc[i] = "page_wait"
  /\ pages' = [pages EXCEPT ![i] = Append(@, PageReply("status", <<>>, NoCursor))]
  /\ Deliver(i, Fulfilled(Reduce(rev, results[i])))
  /\ UNCHANGED <<config, credValid, locals, idReqs, idReply, acquired, reqs, tt>>

\* the end-of-data check made before the matching loop: the items of a page
\* that ends the scan are never matched
PageServedEndCheckFirst(i) ==
  /\ pc[i] = "page_wait"
  /\ \E items \in SeqsUpTo(catalog, MaxItems - ScannedByAll),
        c \in {NoCursor, CursorAfter(Len(pages[i]) + 1)} :
       LET ended    == PageEnded(c, items)
           gathered == IF ended THEN results[i] ELSE results[i] \o PageMatches(rev, items)
           again    == ~ended /\ WithinBudget(page[i] + 1)
       IN  /\ pages' = [pages EXCEPT ![i] = Append(@, PageReply("ok", items, c))]
           /\ results' = Push(i, gathered)
           /\ cursor' = [cursor EXCEPT ![i] = c]
           /\ page' = [page EXCEPT ![i] = IF ended THEN @ ELSE @ + 1]
           /\ IF again
                THEN /\ reqs' = [reqs EXCEPT ![i] = Append(@, ListingRequest(c, token[i]))]
                     /\ StillPending(i, "page_wait")
                ELSE /\ reqs' = reqs
                     /\ Deliver(i, Fulfilled(Reduce(rev, gathered)))
  /\ UNCHANGED <<config, credValid, token, qi, found, idReqs, idReply, acquired, tt>>

\* a page arrives: match its items, take its cursor, then stop or ask again
PageServed(i) ==
  /\ pc[i] = "page_wait"
  /\ \E items \in SeqsUpTo(catalog, MaxItems - ScannedByAll),
        c \in {NoCursor, CursorAfter(Len(pages[i]) + 1)} :
       LET gathered == results[i] \o PageMatches(rev, items)
           ended    == PageEnded(c, items)
           again    == ~ended /\ WithinBudget(page[i] + 1)
       IN  /\ pages' = [pages EXCEPT ![i] = Append(@, PageReply("ok", items, c))]
           /\ results' = Push(i, gathered)
           /\ cursor' = [cursor EXCEPT ![i] = c]
           /\ page' = [page EXCEPT ![i] = IF ended THEN @ ELSE @ + 1]
           /\ IF again
                THEN /\ reqs' = [reqs EXCEPT ![i] = Append(@, ListingRequest(c, token[i]))]
                     /\ StillPending(i, "page_wait")
                ELSE /\ reqs' = reqs
                     /\ Deliver(i, Fulfilled(Reduce(rev, gathered)))
  /\ UNCHANGED <<config, credValid, token, qi, found, idReqs, idReply, acquired, tt>>

PageResponse(i) == PageFails(i) \/ PageRefused(i) \/ PageServed(i)


\* ------------------------------------------------ part_000: search pipeline
NumQueries == 3     \* const queries = ["osrp", "oldschoolrp", "old school rp"]

Channels == [broadcaster_login : {LoginAnnL, LoginBob}, is_live : BOOLEAN]

\* the loop over queries moves on; after the last one the live logins are
\* looked up in helix/streams, unless none was found
AfterQuery(i, live) ==
  /\ found' = [found EXCEPT ![i] = live]
  /\ IF qi[i] < NumQueries
       THEN /\ qi' = [qi EXCEPT ![i] = @ + 1]
            /\ reqs' = reqs
            /\ StillPending(i, "search_wait")
       ELSE /\ qi' = qi
            /\ IF live = {}
                 THEN /\ reqs' = reqs
                      /\ Deliver(i, Fulfilled(<<>>))
                 ELSE /\ reqs' = [reqs EXCEPT ![i] = Append(@, ListingRequest(NoCursor, token[i]))]
                      /\ StillPending(i, "lookup_wait")

SearchFails(i) ==
  /\ pc[i] = "search_wait"
  /\ Deliver(i, Rejected)
  /\ UNCHANGED <<config, credValid, locals, ghosts, tt>>

\* if (!r.ok) continue
SearchRefused(i) ==
  /\ pc[i] = "search_wait"
  /\ AfterQuery(i, found[i])
  /\ UNCHANGED <<config, credValid, token, cursor, page, results, idReqs, idReply, acquired, pages, tt>>

SearchServed(i) ==
  /\ pc[i] = "search_wait"
  /\ \E data \in SUBSET Channels :
       AfterQuery(i, found[i] \cup {ch.broadcaster_login : ch \in {x \in data : x.is_live}})
  /\ UNCHANGED <<config, credValid, token, cursor, page, results, idReqs, idReply, acquired, pages, tt>>

SearchResponse(i) == SearchFails(i) \/ SearchRefused(i) \/ SearchServed(i)

\* the lookup rejects, its body is no JSON, or a matching record has no
\* thumbnail_url (s.thumbnail_url.replace throws)
LookupFails(i) ==
  /\ pc[i] = "lookup_wait"
  /\ \E kind \in {"neterr", "badjson", "badrecord"} :
       pages' = [pages EXCEPT ![i] = Append(@, PageReply(kind, <<>>, NoCursor))]
  /\ Deliver(i, Rejected)
  /\ UNCHANGED <<config, credValid, locals, idReqs, idReply, acquired, reqs, tt>>

\* if (!r2.ok) return []
LookupRefused(i) ==
  /\ pc[i] = "lookup_wait"
  /\ pages' = [pages EXCEPT ![i] = Append(@, PageReply("status", <<>>, NoCursor))]
  /\ Deliver(i, Fulfilled(<<>>))
  /\ UNCHANGED <<config, credValid, locals, idReqs, idReply, acquired, reqs, tt>>

\* (data2.data || []).filter(...).map(...)
LookupServed(i) ==
  /\ pc[i] = "lookup_wait"
  /\ \E items \in SeqsUpTo(catalog, MaxItems) :
       /\ pages' = [pages EXCEPT ![i] = Append(@, PageReply("ok", items, NoCursor))]
       /\ Deliver(i, Fulfilled(PageMatches(rev, items)))
  /\ UNCHANGED <<config, credValid, locals, idReqs, idReply, acquired, reqs, tt>>

LookupResponse(i) == LookupFails(i) \/ LookupRefused(i) \/ LookupServed(i)

\* time passes the credential's expiry minus the 60 s margin
Expire ==
  /\ credValid
  /\ credValid' = FALSE
  /\ UNCHANGED <<config, locals, ghosts, outs>>

Next ==
  \/ \E i \in Invs : Request(i)
  \/ \E i \in Invs : TokenResponse(i)
  \/ \E i \in Invs : PageResponse(i)
  \/ \E i \in Invs : SearchResponse(i)
  \/ \E i \in Invs : LookupResponse(i)

\* the pipeline while every credential issued stays within its time-to-live
Spec == Init /\ [][Next]_vars

\* the pipeline over a span of time in which issued credentials expire
NextWithExpiry == Next \/ Expire

SpecExpiry == Init /\ [][NextWithExpiry]_vars

\* ------------------------------------------- server.js: /debug-sample, /health
SamplePrefix == 50  \* items.slice(0, 50)

RECURSIVE SampleOf(_)
SampleOf(items) ==
  IF items = <<>> THEN <<>>
  ELSE <<[title |-> Head(items).title]>> \o SampleOf(Tail(items))

\* GET /debug-sample: the handler itself awaits getTwitchToken()
DebugSampleRequest(i) ==
  /\ i \in clients
  /\ route[i] = DebugSampleRoute
  /\ pc[i] \in {"idle", "done"}
  /\ token' = [token EXCEPT ![i] = Undefined]
  /\ reqs' = [reqs EXCEPT ![i] = <<>>]
  /\ pages' = [pages EXCEPT ![i] = <<>>]
  /\ idReply' = [idReply EXCEPT ![i] = "none"]
  /\ raised' = [raised EXCEPT ![i] = FALSE]
  /\ IF TokenConfigured
       THEN /\ idReqs' = [idReqs EXCEPT ![i] = 1]
            /\ acquired' = [acquired EXCEPT ![i] = Pending]
            /\ responses' = [responses EXCEPT ![i] = <<>>]
            /\ pc' = [pc EXCEPT ![i] = "sample_token_wait"]
       ELSE /\ idReqs' = [idReqs EXCEPT ![i] = 0]
            /\ acquired' = [acquired EXCEPT ![i] = Fulfilled(Null)]
            /\ responses' = [responses EXCEPT ![i] = << [error |-> "no token"] >>]
            /\ pc' = [pc EXCEPT ![i] = "done"]
  /\ UNCHANGED <<config, credValid, cursor, page, results, qi, found, tw, tt>>

\* getTwitchToken() throws inside the handler: nothing is sent
DebugSampleTokenFails(i) ==
  /\ pc[i] = "sample_token_wait"
  /\ \E kind \in {"neterr", "badjson"} : idReply' = [idReply EXCEPT ![i] = kind]
  /\ acquired' = [acquired EXCEPT ![i] = Rejected]
  /\ raised' = [raised EXCEPT ![i] = TRUE]
  /\ pc' = [pc EXCEPT ![i] = "done"]
  /\ UNCHANGED <<config, credValid, locals, idReqs, reqs, pages, tw, tt, responses>>

\* if (!token) return res.json({ error: "no token" })
DebugSampleTokenRefused(i) ==
  /\ pc[i] = "sample_token_wait"
  /\ \E kind \in {"status", "notoken"} : idReply' = [idReply EXCEPT ![i] = kind]
  /\ acquired' = [acquired EXCEPT ![i] = Fulfilled(Null)]
  /\ responses' = [responses EXCEPT ![i] = << [error |-> "no token"] >>]
  /\ pc' = [pc EXCEPT ![i] = "done"]
  /\ UNCHANGED <<config, credValid, locals, idReqs, reqs, pages, tw, tt, raised>>

\* the handler holds the token and asks the listing endpoint for one page
DebugSampleTokenIssued(i) ==
  /\ pc[i] = "sample_token_wait"
  /\ \E t \in Tokens :
       /\ token' = [token EXCEPT ![i] = t]
       /\ acquired' = [acquired EXCEPT ![i] = Fulfilled(t)]
       /\ reqs' = [reqs EXCEPT ![i] = <<ListingRequest(NoCursor, t)>>]
  /\ credValid' = TRUE
  /\ idReply' = [idReply EXCEPT ![i] = "ok"]
  /\ pc' = [pc EXCEPT ![i] = "sample_page_wait"]
  /\ UNCHANGED <<config, cursor, page, results, qi, found, idReqs, pages,
                 tw, tt, responses, raised>>

DebugSampleToken(i) ==
  DebugSampleTokenFails(i) \/ DebugSampleTokenRefused(i) \/ DebugSampleTokenIssued(i)

DebugSamplePageFails(i) ==
  /\ pc[i] = "sample_page_wait"
  /\ \E kind \in {"neterr", "badjson"} :
       pages' = [pages EXCEPT ![i] = Append(@, PageReply(kind, <<>>, NoCursor))]
  /\ raised' = [raised EXCEPT ![i] = TRUE]
  /\ pc' = [pc EXCEPT ![i] = "done"]
  /\ UNCHANGED <<config, credValid, locals, idReqs, idReply, acquired, reqs,
                 tw, tt, responses>>

\* an error body that echoes the request's credential
DebugSamplePageRefusedEchoes(i) ==
  /\ pc[i] = "sample_page_wait"
  /\ pages' = [pages EXCEPT ![i] = Append(@, PageReply("status", <<>>, NoCursor))]
  /\ responses' = [responses EXCEPT ![i] = << [error |-> token[i]] >>]
  /\ pc' = [pc EXCEPT ![i] = "done"]
  /\ UNCHANGED <<config, credValid, locals, idReqs, idReply, acquired, reqs,
                 tw, tt, raised>>

\* if (!r.ok) return res.json({ error: "streams error", status: r.status })
DebugSamplePageRefused(i) ==
  /\ pc[i] = "sample_page_wait"
  /\ pages' = [pages EXCEPT ![i] = Append(@, PageReply("status", <<>>, NoCursor))]
  /\ responses' = [responses EXCEPT ![i] = << [error |-> "streams error"] >>]
  /\ pc' = [pc EXCEPT ![i] = "done"]
  /\ UNCHANGED <<config, credValid, locals, idReqs, idReply, acquired, reqs,
                 tw, tt, raised>>

\* the titles of the first 50 records of the page (of the record's fields the
\* model keeps, the sample shows the title)
DebugSamplePageServed(i) ==
  /\ pc[i] = "sample_page_wait"
  /\ \E items \in SeqsUpTo(catalog, MaxItems), c \in {NoCursor, CursorAfter(1)} :
       /\ pages' = [pages EXCEPT ![i] = Append(@, PageReply("ok", items, c))]
       /\ responses' = [responses EXCEPT ![i] =
                          << [scannedSampleCount |-> Len(items),
                              sample |-> SampleOf(Take(items, SamplePrefix))] >>]
  /\ pc' = [pc EXCEPT ![i] = "done"]
  /\ UNCHANGED <<config, credValid, locals, idReqs, idReply, acquired, reqs,
                 tw, tt, raised>>

DebugSamplePage(i) ==
  DebugSamplePageFails(i) \/ DebugSamplePageRefused(i) \/ DebugSamplePageServed(i)

\* res.json of /health
HealthBody(r) ==
  IF r = Part000
    THEN [ok |-> TRUE, hasClientId |-> ~Falsy(TWITCH_CLIENT_ID),
          hasSecret |-> ~Falsy(TWITCH_SECRET)]
    ELSE [ok |-> TRUE, hasClientId |-> ~Falsy(TWITCH_CLIENT_ID),
          hasSecret |-> ~Falsy(TWITCH_SECRET), maxPages |-> TWITCH_MAX_PAGES,
          whitelist |-> WHITELIST_LOGINS]

\* GET /health answers synchronously
Health(i) ==
  /\ i \in clients
  /\ route[i] = HealthRoute
  /\ pc[i] \in {"idle", "done"}
  /\ responses' = [responses EXCEPT ![i] = << HealthBody(rev) >>]
  /\ pc' = [pc EXCEPT ![i] = "done"]
  /\ UNCHANGED <<config, credValid, locals, ghosts, tw, tt, raised>>

\* no request has arrived and no credential was issued
NothingServedYet ==
  /\ credValid = FALSE
  /\ pc = [i \in Invs |-> "idle"]
  /\ token = [i \in Invs |-> Undefined]
  /\ cursor = [i \in Invs |-> NoCursor]
  /\ page = [i \in Invs |-> 0]
  /\ results = [i \in Invs |-> <<>>]
  /\ qi = [i \in Invs |-> 0]
  /\ found = [i \in Invs |-> {}]
  /\ idReqs = [i \in Invs |-> 0]
  /\ idReply = [i \in Invs |-> "none"]
  /\ acquired = [i \in Invs |-> Pending]
  /\ reqs = [i \in Invs |-> <<>>]
  /\ pages = [i \in Invs |-> <<>>]
  /\ tw = [i \in Invs |-> Pending]
  /\ tt = [i \in Invs |-> Pending]
  /\ responses = [i \in Invs |-> <<>>]
  /\ raised = [i \in Invs |-> FALSE]

\* one client, any registered route
InitRoutes ==
  /\ rev \in Revisions
  /\ TWITCH_CLIENT_ID \in {Unset, "cid"}
  /\ TWITCH_SECRET = "sec"
  /\ TWITCH_MAX_PAGES \in (IF rev \in ScanRevisions THEN 0..MaxBudget ELSE {0})
  /\ WHITELIST_ENV = <<>>
  /\ CATEGORY_IDS = {}
  /\ clients = {1}
  /\ route \in {f \in [Invs -> RoutesOf(rev)] : \A i \in Invs \ {1} : f[i] = StreamsRoute}
  /\ catalog = Records
  /\ NothingServedYet

NextRoutes ==
  \/ Next
  \/ \E i \in Invs : DebugSampleRequest(i)
  \/ \E i \in Invs : DebugSampleToken(i)
  \/ \E i \in Invs : DebugSamplePage(i)
  \/ \E i \in Invs : Health(i)

\* every route of the service, one request at a time
SpecRoutes == InitRoutes /\ [][NextRoutes]_vars

\* --------------------------------------------- upstream that always answers
\* credentials configured, any page budget, /streams only
InitLive ==
  /\ rev \in Revisions
  /\ TWITCH_CLIENT_ID = "cid"
  /\ TWITCH_SECRET = "sec"
  /\ TWITCH_MAX_PAGES \in (IF rev \in ScanRevisions THEN 0..MaxBudget ELSE {0})
  /\ WHITELIST_ENV = <<>>
  /\ CATEGORY_IDS = {}
  /\ clients = {1}
  /\ route = [i \in Invs |-> StreamsRoute]
  /\ catalog = Records
  /\ NothingServedYet

\* every request to the identity, listing and search endpoints eventually
\* completes, with a success or a failure
UpstreamAnswers ==
  \A i \in Invs :
    /\ WF_vars(TokenResponse(i))
    /\ WF_vars(PageResponse(i))
    /\ WF_vars(SearchResponse(i))
    /\ WF_vars(LookupResponse(i))

SpecLive == InitLive /\ [][Next]_vars /\ UpstreamAnswers

\* ------------------------------------------------- two requests in flight
ConcurrentBudget == 2   \* page budget of the runs with two clients

\* two clients: a /streams request and a second request, to /streams or to
\* /debug-osrp, served by the same process
InitConcurrent ==
  /\ rev \in ScanRevisions
  /\ TWITCH_CLIENT_ID = "cid"
  /\ TWITCH_SECRET = "sec"
  /\ TWITCH_MAX_PAGES = ConcurrentBudget
  /\ WHITELIST_ENV = <<>>
  /\ CATEGORY_IDS = {}
  /\ clients = Invs
  /\ route \in {f \in [Invs -> {StreamsRoute, DebugOsrpRoute}] : f[1] = StreamsRoute}
  /\ catalog = {s \in Records : matchesTitle(s)}
  /\ NothingServedYet

\* the steps of the paginated revisions
NextScan ==
  \/ \E i \in Invs : Request(i)
  \/ \E i \in Invs : TokenResponse(i)
  \/ \E i \in Invs : PageResponse(i)

SpecConcurrent == InitConcurrent /\ [][NextScan]_vars

\* =================================================================== claims
Range(f) == {f[k] : k \in DOMAIN f}

\* every entry a source can contribute
MatchedStreams == {MatchedStream(s) : s \in Records}

Done(i) == pc[i] = "done"

\* the first k replies of the listing endpoint, as one list of raw records
RECURSIVE ItemsOf(_, _)
ItemsOf(log, k) ==
  IF k = 0 THEN <<>> ELSE ItemsOf(log, k - 1) \o log[k].items

\* C1: GET /streams never fails.  In every revision, while the sources are
\* pending nothing has been sent; once the handler has finished it has sent
\* exactly one body, that body is a list of matched streams (possibly empty),
\* no error left the handler, and when getTwitchStreams rejected (at the token
\* exchange or in the middle of the scan) the body is the stub's empty list.
C1_AggregateNeverFails ==
  \A i \in Invs :
    /\ ~raised[i]
    /\ ~Done(i) => responses[i] = <<>>
    /\ Done(i) =>
         /\ Len(responses[i]) = 1
         /\ responses[i][1] \in Seq(MatchedStreams)
         /\ tw[i].status \in {"fulfilled", "rejected"}
         /\ tt[i].status = "fulfilled"
         /\ tw[i].status = "rejected" => responses[i][1] = <<>>

\* C1 witness: the scan threw on its second page after matches were gathered
\* on the first, and the handler answered with the empty list.
C1_Witness ==
  \E i \in Invs :
    /\ Done(i)
    /\ tw[i].status = "rejected"
    /\ Len(pages[i]) = 2
    /\ results[i] # <<>>
    /\ responses[i] = << <<>> >>

\* C2: with the application identifier or the secret absent, getTwitchToken
\* returns null and no request is issued to the identity endpoint or to the
\* listing endpoint in that invocation; /streams answers with the empty list
\* and nothing is thrown.
C2_MissingConfigNoNetwork ==
  \A i \in Invs :
    (pc[i] # "idle" /\ (Falsy(TWITCH_CLIENT_ID) \/ Falsy(TWITCH_SECRET))) =>
      /\ acquired[i] = Fulfilled(Null)
      /\ token[i] = Undefined
      /\ idReqs[i] = 0
      /\ idReply[i] = "none"
      /\ reqs[i] = <<>>
      /\ pages[i] = <<>>
      /\ qi[i] = 0
      /\ Done(i)
      /\ tw[i] = Fulfilled(<<>>)
      /\ responses[i] = << <<>> >>
      /\ ~raised[i]

\* C2 witness: a request was served with the identifier set and the secret
\* absent.
C2_Witness ==
  \E i \in Invs :
    /\ Done(i)
    /\ ~Falsy(TWITCH_CLIENT_ID)
    /\ Falsy(TWITCH_SECRET)
    /\ idReqs[i] = 0
    /\ responses[i] = << <<>> >>

\* C3: the Token Cache makes no redundant refresh.  An acquire() (the call of
\* getTwitchToken that opens a pipeline invocation) made while a previously
\* obtained credential is still valid issues no request to the identity
\* endpoint and returns a credential at once.
C3_NoRedundantExchange ==
  [][\A i \in Invs :
       (credValid /\ Request(i)) =>
          /\ idReqs'[i] = 0
          /\ acquired'[i].status = "fulfilled"
          /\ acquired'[i].value \in Tokens]_vars

\* C4: whenever the credential exchange fails, by a network error or by a
\* non-success status, getTwitchToken returns null and does not throw.
C4_ExchangeFailureReturnsNull ==
  \A i \in Invs :
    idReply[i] \in {"neterr", "status"} => acquired[i] = Fulfilled(Null)

\* the invocation holds a credential and has started its scan
Scanning(i) == rev \in ScanRevisions /\ token[i] \in Tokens

\* every listing reply so far was a success with items and a cursor
AllPagesFull(i) ==
  \A k \in 1..Len(pages[i]) :
    /\ pages[i][k].kind = "ok"
    /\ pages[i][k].items # <<>>
    /\ pages[i][k].cursor # NoCursor

\* C5: page budget.  One scan never issues more than TWITCH_MAX_PAGES listing
\* requests, whatever the upstream answers; and a finished scan whose every
\* page came back with items and a continuation cursor has issued exactly
\* TWITCH_MAX_PAGES of them (the page size of 100 is the request's "first";
\* the loop only tells an empty page from a non-empty one).
C5_PageBudget ==
  \A i \in Invs :
    rev \in ScanRevisions =>
      /\ Len(reqs[i]) <= TWITCH_MAX_PAGES
      /\ \A k \in 1..Len(reqs[i]) : reqs[i][k].first = PageSize
      /\ (Done(i) /\ Scanning(i) /\ AllPagesFull(i) /\ Len(pages[i]) = Len(reqs[i]))
           => Len(reqs[i]) = TWITCH_MAX_PAGES

\* C5 witness: budget 2, two full pages each with a cursor, and the scan has
\* stopped after exactly two requests.
C5_Witness ==
  \E i \in Invs :
    /\ Done(i)
    /\ Scanning(i)
    /\ TWITCH_MAX_PAGES = 2
    /\ Len(reqs[i]) = 2
    /\ Len(pages[i]) = 2
    /\ AllPagesFull(i)
    /\ cursor[i] # NoCursor

\* value holds one entry per distinct lower-cased URL among the matches of
\* the raw records raw, and nothing else
IsDedupedUnion(value, raw) ==
  LET M == Range(PageMatches(rev, raw))
  IN  /\ Range(value) \subseteq M
      /\ {toLowerCase(m.url) : m \in M} = {toLowerCase(v.url) : v \in Range(value)}
      /\ Cardinality({toLowerCase(v.url) : v \in Range(value)}) = Len(value)

\* C6: zero-item termination.  When the third page of a scan comes back empty
\* (pages one and two having brought items and a cursor), with or without a
\* cursor of its own, the scan has ended after exactly three page requests
\* and returns the deduplicated union of the matches of pages one and two,
\* which /streams serves.
C6_ZeroItemTermination ==
  \A i \in Invs :
    ( /\ rev \in ScanRevisions
      /\ Len(pages[i]) >= 3
      /\ pages[i][3].kind = "ok"
      /\ pages[i][3].items = <<>> ) =>
        /\ TWITCH_MAX_PAGES >= 3
        /\ Done(i)
        /\ Len(reqs[i]) = 3
        /\ Len(pages[i]) = 3
        /\ tw[i].status = "fulfilled"
        /\ IsDedupedUnion(tw[i].value, ItemsOf(pages[i], 2))
        /\ responses[i] = << tw[i].value >>

\* C6 witness: a budget above three, an empty third page that still carries a
\* cursor, and a non-empty result from pages one and two.
C6_Witness ==
  \E i \in Invs :
    /\ Done(i)
    /\ rev \in ScanRevisions
    /\ TWITCH_MAX_PAGES > 3
    /\ Len(pages[i]) = 3
    /\ pages[i][3].kind = "ok"
    /\ pages[i][3].items = <<>>
    /\ pages[i][3].cursor # NoCursor
    /\ Len(tw[i].value) = 2

\* what a scan returns when its k-th listing request is refused
PartialResult(i, k) ==
  IF rev \in ScanRevisions
    THEN Reduce(rev, PageMatches(rev, ItemsOf(pages[i], k - 1)))
    ELSE <<>>

\* C7: page failure.  When the k-th listing request of an invocation gets a
\* non-success status, that reply is the last one: no request follows it (no
\* retry, no further page), the invocation has ended, and getTwitchStreams
\* fulfils with exactly the deduplicated, ordered matches of pages 1..k-1.
\* The next invocation starts from an empty result list, no cursor and page 0.
C7_PageFailureKeepsPartial ==
  \A i \in Invs :
    /\ \A k \in 1..Len(pages[i]) :
         pages[i][k].kind = "status" =>
           /\ k = Len(pages[i])
           /\ Len(reqs[i]) = k
           /\ Done(i)
           /\ tw[i] = Fulfilled(PartialResult(i, k))
           /\ rev \in ScanRevisions => IsDedupedUnion(tw[i].value, ItemsOf(pages[i], k - 1))
           /\ responses[i] = << tw[i].value >>
    /\ pc[i] = "token_wait" =>
         /\ results[i] = <<>>
         /\ cursor[i] = NoCursor
         /\ page[i] = 0
         /\ reqs[i] = <<>>
         /\ pages[i] = <<>>

\* C7 witness: the third listing request was refused and the two entries
\* gathered before it were returned.
C7_Witness ==
  \E i \in Invs :
    /\ Done(i)
    /\ Len(pages[i]) = 3
    /\ pages[i][3].kind = "status"
    /\ Len(tw[i].value) = 2
    /\ responses[i] = << tw[i].value >>

\* no two entries of list share a URL, compared case-insensitively
UniqueUrls(list) ==
  \A a, b \in 1..Len(list) :
    a # b => toLowerCase(list[a].url) # toLowerCase(list[b].url)

\* C8: in every list that getTwitchStreams returns, whatever the listing
\* endpoint served (repeated logins, logins in another letter case), no two
\* entries share a canonical URL compared case-insensitively.
C8_UniqueUrls ==
  \A i \in Invs : tw[i].status = "fulfilled" => UniqueUrls(tw[i].value)

\* C8, for the revisions that reduce (server.js, part_001): the list returned
\* by the paginated scan has no two entries with the same lower-cased URL.
C8_UniqueUrlsAfterDedupe ==
  \A i \in Invs :
    (rev \in ScanRevisions /\ tw[i].status = "fulfilled") => UniqueUrls(tw[i].value)

\* list is ordered by viewer count, non-increasing
SortedByViewers(list) ==
  \A a, b \in 1..Len(list) : a < b => list[a].viewers >= list[b].viewers

\* C9: the list served by /streams is sorted non-increasing by viewer count
\* (every record of the model carries a viewer count), in whatever order the
\* records arrived.
C9_StreamsSorted ==
  \A i \in Invs : Done(i) => SortedByViewers(responses[i][1])

\* C9, for server.js alone: its /streams list is sorted by viewer count.
C9_StreamsSortedInServer ==
  \A i \in Invs : (rev = Server /\ Done(i)) => SortedByViewers(responses[i][1])

\* the Match Policy of the specification: title or allow-listed login, behind
\* the category gate when a category allow-list is configured
PolicyIncludes(s) ==
  IF CATEGORY_IDS = {}
    THEN matchesTitle(s) \/ isWhitelisted(s)
    ELSE s.game_id \in CATEGORY_IDS /\ (matchesTitle(s) \/ isWhitelisted(s))

\* C10: Match Policy combination in server.js.  A record served on a page is
\* pushed to results if and only if its title matches or its login is
\* allow-listed when no category allow-list is configured, and if and only if
\* its category is in the list and (title matches or login allow-listed) when
\* one is configured.
C10_MatchPolicyCombination ==
  \A i \in Invs :
    rev = Server =>
      \A k \in 1..Len(pages[i]) :
        \A s \in Range(pages[i][k].items) :
          (MatchedStream(s) \in Range(results[i])) <=> PolicyIncludes(s)

\* C10, the part without a category allow-list: an allow-listed login with an
\* unrelated title is included, as is any record whose title matches.
C10_NoCategoryGate ==
  \A i \in Invs :
    (rev = Server /\ CATEGORY_IDS = {}) =>
      \A k \in 1..Len(pages[i]) :
        \A s \in Range(pages[i][k].items) :
          (MatchedStream(s) \in Range(results[i])) <=> PolicyIncludes(s)

\* the route handler has called res.json
Answered(i) == responses[i] # <<>>

\* the invocation has been started by a request
Started(i) == pc[i] # "idle"

\* C11: all-complete join.  In every revision (Promise.allSettled in server.js
\* and part_000, Promise.all inside try/catch in part_001) a response is sent
\* only once both source promises have settled, and the body is the merge of
\* what the two settled outcomes contribute; while the scan is still pending
\* the stub source has already completed and nothing has been sent; and a
\* rejected scan leaves the stub's outcome fulfilled and in the merge.
C11_AllCompleteJoin ==
  \A i \in Invs :
    /\ Answered(i) =>
         /\ tw[i].status \in {"fulfilled", "rejected"}
         /\ tt[i].status \in {"fulfilled", "rejected"}
         /\ responses[i] = << ValueOrEmpty(tw[i]) \o ValueOrEmpty(tt[i]) >>
    /\ (Started(i) /\ tw[i].status = "pending") =>
         /\ tt[i] = getTiktokStreams
         /\ ~Answered(i)
    /\ tw[i].status = "rejected" => tt[i] = getTiktokStreams

\* C11 witness: under part_001's Promise.all the scan rejected on a page after
\* the stub had completed, and the response was sent with both outcomes known.
C11_Witness ==
  \E i \in Invs :
    /\ rev = Part001
    /\ Answered(i)
    /\ tw[i].status = "rejected"
    /\ tt[i].status = "fulfilled"
    /\ Len(pages[i]) >= 1

\* C12: sequential pagination.  Within one scan at most one listing request is
\* outstanding (the requests issued exceed the replies received by one exactly
\* while the scan waits for a page, and by none otherwise); the first request
\* carries no cursor; and request k+1 was issued after page k was received as
\* a success, carrying exactly the continuation cursor page k returned.
C12_SequentialPages ==
  \A i \in Invs :
    rev \in ScanRevisions =>
      /\ Len(reqs[i]) = Len(pages[i]) + (IF pc[i] = "page_wait" THEN 1 ELSE 0)
      /\ Len(reqs[i]) >= 1 => reqs[i][1].after = NoCursor
      /\ \A k \in 1..(Len(reqs[i]) - 1) :
           /\ pages[i][k].kind = "ok"
           /\ pages[i][k].cursor # NoCursor
           /\ reqs[i][k + 1].after = pages[i][k].cursor

\* C12 witness: the third request is in flight; it carries the cursor of page
\* two, which differs from the cursor the second request carried.
C12_Witness ==
  \E i \in Invs :
    /\ rev \in ScanRevisions
    /\ pc[i] = "page_wait"
    /\ Len(reqs[i]) = 3
    /\ Len(pages[i]) = 2
    /\ reqs[i][3].after = pages[i][2].cursor
    /\ reqs[i][3].after # reqs[i][2].after

\* the strings a list of matched streams contains
StreamsStrings(list) ==
  UNION { {m.platform} \cup Range(m.title) \cup Range(m.url) : m \in Range(list) }

\* the strings a response body of route rt contains
BodyStrings(rt, body) ==
  CASE rt = StreamsRoute     -> StreamsStrings(body)
    [] rt = DebugOsrpRoute   -> StreamsStrings(body.sample)
    [] rt = DebugSampleRoute -> IF "error" \in DOMAIN body
                                  THEN {body.error}
                                  ELSE UNION {Range(e.title) : e \in Range(body.sample)}
    [] rt = HealthRoute      -> IF "whitelist" \in DOMAIN body
                                  THEN UNION {Range(w) : w \in body.whitelist}
                                  ELSE {}

\* a response sent to invocation i contains an access token
Exposed(i) ==
  \E k \in 1..Len(responses[i]) : BodyStrings(route[i], responses[i][k]) \cap Tokens # {}

CursorlessPage(i, k) ==
  /\ pages[i][k].kind = "ok"
  /\ pages[i][k].items # <<>>
  /\ pages[i][k].cursor = NoCursor

\* C14: cursor-less last page.  When a successful page brings items but no
\* continuation cursor, it is the last reply of the scan and no listing
\* request follows it; the scan has returned, and every record of that page
\* that passes the inclusion test has its URL in the returned list, which is
\* the deduplicated union of the matches of all pages up to and including it.
C14_CursorlessLastPage ==
  \A i \in Invs :
    rev \in ScanRevisions =>
      \A k \in 1..Len(pages[i]) :
        CursorlessPage(i, k) =>
          /\ k = Len(pages[i])
          /\ Len(reqs[i]) = k
          /\ Done(i)
          /\ tw[i].status = "fulfilled"
          /\ \A s \in Range(pages[i][k].items) :
               Matches(rev, s) =>
                 \E v \in Range(tw[i].value) : UrlKey(v) = UrlKey(MatchedStream(s))
          /\ IsDedupedUnion(tw[i].value, ItemsOf(pages[i], k))

\* C14 witness: the budget allowed a third request, page two came without a
\* cursor, and a record matched only on page two is in the returned list.
C14_Witness ==
  \E i \in Invs :
    /\ rev \in ScanRevisions
    /\ TWITCH_MAX_PAGES >= 3
    /\ Len(pages[i]) = 2
    /\ CursorlessPage(i, 2)
    /\ Len(reqs[i]) = 2
    /\ \E s \in Range(pages[i][2].items) :
         /\ Matches(rev, s)
         /\ MatchedStream(s) \notin Range(PageMatches(rev, pages[i][1].items))
         /\ MatchedStream(s) \in Range(tw[i].value)

\* the matched records of every page the invocation received, in scan order
\* (page order, then position in the page)
ScanMatches(i) == PageMatches(rev, ItemsOf(pages[i], Len(pages[i])))

\* the first record of list whose lower-cased URL is key
FirstSeen(list, key) ==
  list[CHOOSE k \in 1..Len(list) :
         /\ UrlKey(list[k]) = key
         /\ \A j \in 1..(k - 1) : UrlKey(list[j]) # key]

\* C15: reducer soundness and completeness, first seen wins.  The list a scan
\* returns holds, for each distinct lower-cased URL among the records that
\* arrived on a successfully fetched page and passed the inclusion test,
\* exactly one entry, which is the first such record in scan order; and it
\* holds nothing else.
C15_ReducerFirstSeenWins ==
  \A i \in Invs :
    (rev \in ScanRevisions /\ Done(i) /\ tw[i].status = "fulfilled") =>
      LET M     == ScanMatches(i)
          value == tw[i].value
      IN  /\ \A k \in 1..Len(M) :
               Cardinality({n \in 1..Len(value) : UrlKey(value[n]) = UrlKey(M[k])}) = 1
          /\ \A n \in 1..Len(value) :
               /\ \E k \in 1..Len(M) : UrlKey(M[k]) = UrlKey(value[n])
               /\ value[n] = FirstSeen(M, UrlKey(value[n]))

\* C15 witness: two different matched records with the same lower-cased URL
\* arrived on different pages; the one of the earlier page is in the result,
\* the later one is not.
C15_Witness ==
  \E i \in Invs :
    /\ rev \in ScanRevisions
    /\ Done(i)
    /\ tw[i].status = "fulfilled"
    /\ Len(pages[i]) >= 2
    /\ \E a \in Range(PageMatches(rev, pages[i][1].items)),
          b \in Range(PageMatches(rev, pages[i][2].items)) :
         /\ a # b
         /\ UrlKey(a) = UrlKey(b)
         /\ a \in Range(tw[i].value)
         /\ b \notin Range(tw[i].value)

\* the invocation is suspended at an await on an upstream request
Waiting(i) == pc[i] \in {"token_wait", "page_wait", "search_wait", "lookup_wait"}

\* C16: termination.  Provided every upstream request eventually completes,
\* an invocation suspended at any await eventually ends: getTwitchStreams has
\* settled and the /streams request has received its response, for every page
\* budget and whatever the upstream answers (cursors on every page included).
C16_Termination ==
  \A i \in Invs :
    Waiting(i) ~> (Done(i) /\ tw[i].status # "pending" /\ Answered(i))

\* C16 witness: a budget of three, three pages that all brought items and a
\* cursor, and the request has been answered.
C16_Witness ==
  \E i \in Invs :
    /\ rev \in ScanRevisions
    /\ TWITCH_MAX_PAGES = 3
    /\ Len(pages[i]) = 3
    /\ AllPagesFull(i)
    /\ Done(i)
    /\ tw[i].status = "fulfilled"
    /\ Answered(i)

\* getTwitchStreams run alone, after its token was issued, against the first k
\* replies of log: its locals and the outcome of its promise
RECURSIVE ScanAlone(_, _)
ScanAlone(log, k) ==
  IF k = 0
    THEN [results |-> <<>>, cursor |-> NoCursor, page |-> 0,
          out |-> IF WithinBudget(0) THEN Pending ELSE Fulfilled(Reduce(rev, <<>>))]
    ELSE LET st == ScanAlone(log, k - 1)
             r  == log[k]
         IN  CASE r.kind \in {"neterr", "badjson"} -> [st EXCEPT !.out = Rejected]
               [] r.kind = "status" ->
                    [st EXCEPT !.out = Fulfilled(Reduce(rev, st.results))]
               [] r.kind = "ok" ->
                    LET gathered == st.results \o PageMatches(rev, r.items)
                        ended    == PageEnded(r.cursor, r.items)
                    IN  [results |-> gathered,
                         cursor  |-> r.cursor,
                         page    |-> IF ended THEN st.page ELSE st.page + 1,
                         out     |-> IF ~ended /\ WithinBudget(st.page + 1)
                                       THEN Pending
                                       ELSE Fulfilled(Reduce(rev, gathered))]

\* C17: isolation.  With two requests interleaving at their awaits (/streams
\* with /streams, /streams with /debug-osrp), the cursor, the page counter and
\* the result list of each scan, and the list it returns, are at every moment
\* what the scan would have computed alone from the page replies that this
\* invocation received; nothing of the other invocation enters them.
C17_Isolation ==
  \A i \in Invs :
    token[i] \in Tokens =>
      LET alone == ScanAlone(pages[i], Len(pages[i]))
      IN  /\ results[i] = alone.results
          /\ cursor[i] = alone.cursor
          /\ page[i] = alone.page
          /\ tw[i] = alone.out

\* C17 witness: a /streams scan and a /debug-osrp scan are both suspended on
\* their second page, each holding its own non-empty result list and cursor.
C17_Witness ==
  /\ route[2] = DebugOsrpRoute
  /\ pc[1] = "page_wait" /\ pc[2] = "page_wait"
  /\ page[1] = 1 /\ page[2] = 1
  /\ results[1] # <<>> /\ results[2] # <<>>
  /\ results[1] # results[2]

\* the exchange was attempted and failed: network error or non-success status
ExchangeFailed(i) == idReply[i] \in {"neterr", "status"}

\* every listing request of the invocation carries the credential that this
\* invocation's own exchange returned
RequestsCarryOwnToken(i) ==
  \A k \in 1..Len(reqs[i]) :
    /\ idReqs[i] = 1
    /\ idReply[i] = "ok"
    /\ acquired[i].status = "fulfilled"
    /\ acquired[i].value \in Tokens
    /\ reqs[i][k].token = acquired[i].value

\* C18: token before scan.  In the paginated revisions a listing request is
\* issued only after this invocation's exchange returned a credential, and
\* carries it; when the configuration is missing or the exchange failed, the
\* scan issues no listing request and returns the empty list.
C18_TokenBeforeScan ==
  \A i \in Invs :
    rev \in ScanRevisions =>
      /\ RequestsCarryOwnToken(i)
      /\ (Started(i) /\ (~TokenConfigured \/ ExchangeFailed(i))) =>
           /\ reqs[i] = <<>>
           /\ tw[i] = Fulfilled(<<>>)

\* C18, as far as getTwitchToken returns: a listing request carries the
\* credential of the invocation's own exchange; when getTwitchToken returned
\* null the scan made no listing request and returned the empty list; when it
\* threw, the scan made no listing request and threw as well.
C18_NoListingWithoutToken ==
  \A i \in Invs :
    rev \in ScanRevisions =>
      /\ RequestsCarryOwnToken(i)
      /\ acquired[i] = Fulfilled(Null) => (reqs[i] = <<>> /\ tw[i] = Fulfilled(<<>>))
      /\ acquired[i] = Rejected => (reqs[i] = <<>> /\ tw[i] = Rejected)

====
